---- MODULE Spec2Model ----
(***************************************************************************)
(* Propositional tableau solver (src/src/tableaux_solver): the formula     *)
(* tree, the alpha/beta rule table, the Theory (a HashSet of formulas),    *)
(* the Tableau (a VecDeque of theories) and the is_satisfiable / is_valid  *)
(* loop, as a state machine.                                               *)
(***************************************************************************)
EXTENDS Integers, Sequences, FiniteSets, TLC

\* Variable names the input formulas are built from.
VariableNames == {"a", "b"}

\* Largest sub-formula count (number of tree nodes) of an input formula.
MaxSize == 5

\* Longest chain of negations over a variable among the formulas added to a Theory.
MaxNegations == 4

\* Largest number of members of the Theory object of the method calls.
MaxMembers == 3

\* Largest number of theories pushed to the Tableau object of the method calls.
MaxPushes == 3

\* Longest input text handed to the string entry point, the parser and the lexer.
MaxText == 3
MaxOptionalSize == 4
MaxLines == 2

(***************************************************************************)
(* Formula tree: formula/propositional_formula.rs                          *)
(***************************************************************************)
variable(v) == <<"Variable", v>>

negated(formula) == <<"Negation", formula>>

conjunction(left_sub_formula, right_sub_formula) ==
    <<"Conjunction", left_sub_formula, right_sub_formula>>

disjunction(left_sub_formula, right_sub_formula) ==
    <<"Disjunction", left_sub_formula, right_sub_formula>>

implication(left_sub_formula, right_sub_formula) ==
    <<"Implication", left_sub_formula, right_sub_formula>>

biimplication(left_sub_formula, right_sub_formula) ==
    <<"Biimplication", left_sub_formula, right_sub_formula>>

BinaryTags == {"Conjunction", "Disjunction", "Implication", "Biimplication"}

\* The well-formed formulas (every child present) with exactly n nodes.
RECURSIVE PropositionalFormula(_)
PropositionalFormula(n) ==
    IF n = 1
    THEN {variable(v) : v \in VariableNames}
    ELSE {negated(f) : f \in PropositionalFormula(n - 1)}
         \cup UNION {UNION {{<<tag, l, r>> : l \in PropositionalFormula(k),
                                             r \in PropositionalFormula(n - 1 - k)}
                            : k \in 1..(n - 2)}
                     : tag \in BinaryTags}

\* The literals L of the tautology tests: a variable or a negated variable.
TestLiterals ==
    {variable(v) : v \in VariableNames} \cup {negated(variable(v)) : v \in VariableNames}

\* The formulas of tests::test_tautology_*: (L | -L), (L -> L), (L <-> L) for a test
\* literal L, and ((a ^ b) -> a).
TestTautologies ==
    UNION {{disjunction(l, negated(l)), implication(l, l), biimplication(l, l)}
           : l \in TestLiterals}
    \cup {implication(conjunction(variable(a), variable(b)), variable(a))
          : a \in VariableNames, b \in VariableNames}

\* The input formulas of the model.
\* Formulas one of whose branches leads, a double negation later, to the theory
\* the other branch starts with.
RevisitingFormulas ==
    {disjunction(disjunction(variable(a), variable(b)),
                 negated(negated(disjunction(variable(a), variable(b))))) :
        a \in VariableNames, b \in VariableNames}

\* Conjunctions of two connectives (or their negations): after the first step
\* the theory holds two non-literal formulas, so the selection has a choice.
ChoiceConjuncts ==
    LET binary == {<<tag, variable("a"), variable("b")>> : tag \in BinaryTags}
    IN  binary \cup {negated(f) : f \in binary}

ChoiceFormulas ==
    {conjunction(l, r) : l \in ChoiceConjuncts, r \in ChoiceConjuncts}

Inputs ==
    UNION {PropositionalFormula(n) : n \in 1..MaxSize}
    \cup TestTautologies \cup RevisitingFormulas \cup ChoiceFormulas

\* Option::None in the place of a sub-formula: the variants hold their children as
\* Option<Box<PropositionalFormula>>.
Absent == <<"None">>

Present(child) == child # Absent

\* The values of the type with n nodes, an absent child counted as a node.
RECURSIVE OptionalFormula(_)
OptionalFormula(n) ==
    LET Child(k) == OptionalFormula(k) \cup (IF k = 1 THEN {Absent} ELSE {})
    IN  IF n = 1
        THEN {variable(v) : v \in VariableNames}
        ELSE {negated(f) : f \in Child(n - 1)}
             \cup UNION {UNION {{<<tag, l, r>> : l \in Child(k),
                                                 r \in Child(n - 1 - k)}
                                : k \in 1..(n - 2)}
                         : tag \in BinaryTags}

\* The values with an absent child somewhere.
AbsentChildFormulas ==
    UNION {OptionalFormula(n) \ PropositionalFormula(n) : n \in 2..MaxOptionalSize}

\* Mutant: only a variable or the negation of a variable is a literal.
is_literal_one_level(self) ==
    CASE self[1] = "Variable" -> TRUE
      [] self[1] = "Negation" -> self[2][1] = "Variable"
      [] OTHER -> FALSE

RECURSIVE is_literal(_)
is_literal(self) ==
    CASE self[1] = "Variable" -> TRUE
      [] self[1] = "Negation" -> is_literal(self[2])
      [] OTHER -> FALSE

(***************************************************************************)
(* Rule table: tableaux_solver/mod.rs, expand_non_literal_formula.         *)
(* The result is the ExpansionKind with its one or two outputs, or None.   *)
(***************************************************************************)
Alpha(literal_1, optional_literal_2) ==
    [kind |-> "Alpha", out |-> <<literal_1>> \o optional_literal_2]

Beta(literal_1, literal_2) ==
    [kind |-> "Beta", out |-> <<literal_1, literal_2>>]

None == [kind |-> "None", out |-> <<>>]

\* Conjunction(Some(a), Some(b)) => Alpha(a, Some(b))
expand_conjunction(a, b) == Alpha(a, <<b>>)

\* Mutant: the two implications are returned as one conjunction.
expand_biimplication_as_conjunction(a, b) ==
    Alpha(conjunction(implication(a, b), implication(b, a)), <<>>)

\* Biimplication(Some(a), Some(b)): alpha_1 and alpha_2 are both built by
\* implication(a.clone(), b.clone()).
expand_biimplication(a, b) == Alpha(implication(a, b), <<implication(a, b)>>)

\* Mutant: the disjunction is expanded like a conjunction.
expand_disjunction_as_alpha(a, b) == Alpha(a, <<b>>)

\* Disjunction(Some(a), Some(b)) => Beta(a, b)
expand_disjunction(a, b) == Beta(a, b)

\* Mutant: the premise is not negated.
expand_implication_premise_kept(a, b) == Beta(a, b)

\* Implication(Some(a), Some(b)) => Beta((-a), b)
expand_implication(a, b) == Beta(negated(a), b)

\* Mutant: the arm of the double negation is missing.
expand_negated_negation_missing(a) == None

\* Negation(Some(Negation(Some(a)))) => Alpha(a, None)
expand_negated_negation(a) == Alpha(a, <<>>)

\* Negation(Some(Disjunction(Some(a), Some(b)))) => Alpha((-a), Some((-b)))
expand_negated_disjunction(a, b) == Alpha(negated(a), <<negated(b)>>)

\* Mutant: -(A ^ B) is expanded as an alpha rule.
expand_negated_conjunction_as_alpha(a, b) == Alpha(negated(a), <<negated(b)>>)

\* Negation(Some(Conjunction(Some(a), Some(b)))) => Beta((-a), (-b))
expand_negated_conjunction(a, b) == Beta(negated(a), negated(b))

\* Mutant: the conclusion is not negated.
expand_negated_implication_conclusion_kept(a, b) == Alpha(a, <<b>>)

\* Negation(Some(Implication(Some(a), Some(b)))) => Alpha(a, Some((-b)))
expand_negated_implication(a, b) == Alpha(a, <<negated(b)>>)

\* Mutant: the branches assert that both sides agree instead of that they differ.
expand_negated_biimplication_agreeing(a, b) ==
    Beta(conjunction(a, b), conjunction(negated(b), negated(a)))

\* Negation(Some(Biimplication(Some(a), Some(b)))) => Beta((a^(-b)), (b^(-a)))
expand_negated_biimplication(a, b) ==
    Beta(conjunction(a, negated(b)), conjunction(b, negated(a)))

expand_non_literal_formula(non_literal) ==
    LET Some2(f) == Len(f) = 3 /\ Present(f[2]) /\ Present(f[3])
        Some1(f) == Len(f) = 2 /\ Present(f[2])
    IN
    CASE non_literal[1] = "Conjunction" /\ Some2(non_literal) ->
            expand_conjunction(non_literal[2], non_literal[3])
      [] non_literal[1] = "Biimplication" /\ Some2(non_literal) ->
            expand_biimplication(non_literal[2], non_literal[3])
      [] non_literal[1] = "Disjunction" /\ Some2(non_literal) ->
            expand_disjunction(non_literal[2], non_literal[3])
      [] non_literal[1] = "Implication" /\ Some2(non_literal) ->
            expand_implication(non_literal[2], non_literal[3])
      [] non_literal[1] = "Negation" /\ Some1(non_literal) ->
            LET f == non_literal[2] IN
            CASE f[1] = "Negation" /\ Some1(f) -> expand_negated_negation(f[2])
              [] f[1] = "Disjunction" /\ Some2(f) ->
                    expand_negated_disjunction(f[2], f[3])
              [] f[1] = "Conjunction" /\ Some2(f) ->
                    expand_negated_conjunction(f[2], f[3])
              [] f[1] = "Implication" /\ Some2(f) ->
                    expand_negated_implication(f[2], f[3])
              [] f[1] = "Biimplication" /\ Some2(f) ->
                    expand_negated_biimplication(f[2], f[3])
              [] OTHER -> None
      [] OTHER -> None

(***************************************************************************)
(* Theory: tableaux_solver/theory.rs.  A theory is the HashSet of its      *)
(* formulas; a HashSet is iterated in an unspecified order, so every       *)
(* operation that iterates is computed for an iteration order and the      *)
(* operation of the set yields each result some order can produce.         *)
(***************************************************************************)
\* Theory::new
Theory_new == {}

\* Mutant: the HashSet is returned without the formula inserted.
from_propositional_formula_empty(formula) == {}

from_propositional_formula(formula) == {formula}

\* Mutant: the formula replaces the members instead of joining them.
add_overwrites(formulas, formula) == {formula}

add(formulas, formula) == formulas \cup {formula}

\* The iteration orders of a HashSet holding `formulas`.
RECURSIVE iter(_)
iter(formulas) ==
    IF formulas = {}
    THEN {<<>>}
    ELSE UNION {{<<f>> \o rest : rest \in iter(formulas \ {f})} : f \in formulas}

\* Mutant: a literal is a variable or its single negation, unlike in is_literal.
is_fully_expanded_one_level(formulas) == \A f \in formulas : is_literal_one_level(f)

is_fully_expanded(formulas) == \A f \in formulas : is_literal(f)

\* HashMap::insert / get_mut on the map name -> <<has_literal, has_negation>>.
insert(literal_occurrence_map, name, flags) ==
    [n \in DOMAIN literal_occurrence_map \cup {name} |->
        IF n = name THEN flags ELSE literal_occurrence_map[n]]

\* Mutant: a variable seen first is entered with neither flag set.
check_variable_first_unrecorded(name, literal_occurrence_map) ==
    IF name \in DOMAIN literal_occurrence_map
    THEN IF literal_occurrence_map[name][2]
         THEN [found |-> TRUE, map |-> literal_occurrence_map]
         ELSE [found |-> FALSE,
               map |-> insert(literal_occurrence_map, name,
                              <<TRUE, literal_occurrence_map[name][2]>>)]
    ELSE [found |-> FALSE, map |-> insert(literal_occurrence_map, name, <<FALSE, FALSE>>)]

\* Variable(v) arm: a contradiction when the negation was seen before.
check_variable(name, literal_occurrence_map) ==
    IF name \in DOMAIN literal_occurrence_map
    THEN IF literal_occurrence_map[name][2]
         THEN [found |-> TRUE, map |-> literal_occurrence_map]
         ELSE [found |-> FALSE,
               map |-> insert(literal_occurrence_map, name,
                              <<TRUE, literal_occurrence_map[name][2]>>)]
    ELSE [found |-> FALSE, map |-> insert(literal_occurrence_map, name, <<TRUE, FALSE>>)]

\* Mutant: the arm records the negation but never reports a contradiction.
check_negated_variable_silent(name, literal_occurrence_map) ==
    [found |-> FALSE, map |-> insert(literal_occurrence_map, name, <<FALSE, TRUE>>)]

\* Negation(Some(Variable(v))) arm: a contradiction when the literal was seen before.
check_negated_variable(name, literal_occurrence_map) ==
    IF name \in DOMAIN literal_occurrence_map
    THEN IF literal_occurrence_map[name][1]
         THEN [found |-> TRUE, map |-> literal_occurrence_map]
         ELSE [found |-> FALSE,
               map |-> insert(literal_occurrence_map, name,
                              <<literal_occurrence_map[name][1], TRUE>>)]
    ELSE [found |-> FALSE, map |-> insert(literal_occurrence_map, name, <<FALSE, TRUE>>)]

\* Mutant: a negation of a negation is skipped instead of unwrapped.
check_formula_one_level(formula, literal_occurrence_map) ==
    CASE formula[1] = "Variable" -> check_variable(formula[2], literal_occurrence_map)
      [] formula[1] = "Negation" /\ formula[2][1] = "Variable" ->
            check_negated_variable(formula[2][2], literal_occurrence_map)
      [] OTHER -> [found |-> FALSE, map |-> literal_occurrence_map]

RECURSIVE check_formula(_, _)
check_formula(formula, literal_occurrence_map) ==
    CASE formula[1] = "Variable" -> check_variable(formula[2], literal_occurrence_map)
      [] formula[1] = "Negation" ->
            LET f == formula[2] IN
            CASE f[1] = "Variable" -> check_negated_variable(f[2], literal_occurrence_map)
              [] f[1] = "Negation" -> check_formula(f[2], literal_occurrence_map)
              [] OTHER -> [found |-> FALSE, map |-> literal_occurrence_map]
      [] OTHER -> [found |-> FALSE, map |-> literal_occurrence_map]

\* The loop of has_contradictions over one iteration order.
\* Mutant: only the first formula of the iteration is checked.
has_contradictions_loop_first_only(order, literal_occurrence_map) ==
    IF order = <<>>
    THEN FALSE
    ELSE check_formula(Head(order), literal_occurrence_map).found

RECURSIVE has_contradictions_loop(_, _)
has_contradictions_loop(order, literal_occurrence_map) ==
    IF order = <<>>
    THEN FALSE
    ELSE LET r == check_formula(Head(order), literal_occurrence_map) IN
         IF r.found THEN TRUE ELSE has_contradictions_loop(Tail(order), r.map)

\* Mutant: no theory is found contradictory.
has_contradictions_never(formulas) == {FALSE}

\* The values has_contradictions can return for the theory.
has_contradictions(formulas) ==
    {has_contradictions_loop(order, <<>>) : order \in iter(formulas)}

\* Iterator::find over one iteration order: Some(first non-literal) or None.
\* Mutant: the first formula of the iteration is returned, literal or not.
find_non_literal_first(order) == IF order = <<>> THEN <<>> ELSE <<Head(order)>>

RECURSIVE find_non_literal(_)
find_non_literal(order) ==
    IF order = <<>>
    THEN <<>>
    ELSE IF ~is_literal(Head(order)) THEN <<Head(order)>> ELSE find_non_literal(Tail(order))

\* The values get_non_literal_formula can return: <<f>> is Some(f), <<>> is None.
get_non_literal_formula(formulas) == {find_non_literal(order) : order \in iter(formulas)}

\* Mutant: the replacement is inserted and `existing` is not removed.
swap_formula_keeping_existing(formulas, existing, replacement) ==
    IF existing \in formulas
    THEN formulas \cup {replacement}
    ELSE formulas

swap_formula(formulas, existing, replacement) ==
    IF existing \in formulas
    THEN (formulas \ {existing}) \cup {replacement}
    ELSE formulas

\* Mutant: the replacements are inserted whether or not `existing` was removed.
swap_formula2_unconditional(formulas, existing, replacements) ==
    ((formulas \ {existing}) \cup {replacements[1]}) \cup {replacements[2]}

swap_formula2(formulas, existing, replacements) ==
    IF existing \in formulas
    THEN ((formulas \ {existing}) \cup {replacements[1]}) \cup {replacements[2]}
    ELSE formulas

(***************************************************************************)
(* Tableau: tableaux_solver/tableau.rs.  The VecDeque of theories.         *)
(***************************************************************************)
from_starting_propositional_formula(formula) == <<from_propositional_formula(formula)>>

\* Tableau::new
Tableau_new == <<>>

\* Mutant: a tableau with one theory left counts as empty.
is_empty_at_most_one(theories) == Len(theories) <= 1

is_empty(theories) == theories = <<>>

\* Mutant: the theory is taken from the back of the VecDeque.
pop_theory_back(theories) ==
    IF theories = <<>>
    THEN [result |-> <<>>, theories |-> theories]
    ELSE [result |-> <<theories[Len(theories)]>>,
          theories |-> SubSeq(theories, 1, Len(theories) - 1)]

\* VecDeque::pop_front: the result is <<t>> for Some(t) and <<>> for None.
pop_theory(theories) ==
    IF theories = <<>>
    THEN [result |-> <<>>, theories |-> theories]
    ELSE [result |-> <<Head(theories)>>, theories |-> Tail(theories)]

\* Mutant: the pushed theory replaces the theories waiting in the tableau.
push_theory_replacing(theories, theory) == <<theory>>

push_theory(theories, theory) == Append(theories, theory)

\* Mutant: only the front theory is compared.
contains_front(theories, theory) == theories # <<>> /\ theories[1] = theory

contains(theories, theory) == \E i \in 1..Len(theories) : theories[i] = theory

\* Mutant: the `!` before has_contradictions is missing.
push_if_closed(theories, theory, hc) ==
    IF ~contains(theories, theory) /\ hc THEN push_theory(theories, theory) ELSE theories

\* `if !tableau.contains(&t) && !t.has_contradictions() { tableau.push_theory(t) }`
\* with has_contradictions returning hc.
push_unless_known_or_closed(theories, theory, hc) ==
    IF ~contains(theories, theory) /\ ~hc THEN push_theory(theories, theory) ELSE theories

(***************************************************************************)
(* Solver: tableaux_solver/mod.rs, is_satisfiable and is_valid.            *)
(***************************************************************************)
VARIABLES
    entry,      \* the function that was called: "is_satisfiable", "is_valid",
                \* "expand_non_literal_formula" or "is_literal"; or the type whose
                \* methods are called: "Theory" or "Tableau"; or the text front end:
                \* "lib::is_satisfiable", "parse" or "lex"; or "main"
    formula,    \* its argument
    tableau,    \* the VecDeque of theories of the running is_satisfiable loop
    pc,         \* "loop" in the while loop, "lookup" before a rule lookup, "match"
                \* before an is_literal call, "construct" and "object" around the
                \* constructor of method calls, "returned",
                \* or "panicked" (an unwrap of None); in main, "parse" while the
                \* lines are parsed, "main" after that, "exited"
    ret,        \* the value returned by the call (meaningful once pc = "returned")
    pops,       \* the number of theories popped by the loop so far
    last,       \* the last loop iteration: popped theory, selected formula, rule result
    history,    \* the calls completed before this one, as [entry, formula, ret]
    theory_object,  \* the Theory object of the Theory method calls
    op,         \* the last constructor or method call on a Theory or Tableau object
    pushed,     \* the insertion orders of the theories pushed to the Tableau object
    enqueued,   \* the theories the running is_satisfiable loop has enqueued so far,
                \* the seed first
    mode,       \* main: args.mode, <<>> for None and <<c>> for Some(c)
    inputs,     \* main: the input lines
    formulas,   \* main: the formulas parsed so far
    results,    \* main: the booleans collected so far
    stdout,     \* main: the lines written to the standard output
    exit_code   \* main: the exit code (meaningful once pc = "exited")

vars == <<entry, formula, tableau, pc, ret, pops, last, history, theory_object, op,
         pushed, enqueued, mode, inputs, formulas, results, stdout, exit_code>>

\* The state of the command-line driver, untouched by the library calls.
driver == <<mode, inputs, formulas, results, stdout, exit_code>>

\* The driver is not running.
NoDriver ==
    /\ mode = <<>>
    /\ inputs = <<>>
    /\ formulas = <<>>
    /\ results = <<>>
    /\ stdout = <<>>
    /\ exit_code = 0

\* The state of the Theory and Tableau method calls, untouched by the solver.
objects == <<theory_object, op, pushed>>

NoCall == [name |-> "none"]

\* is_valid: `let negated_formula = PropositionalFormula::negated(Box::new(formula.clone()))`
is_valid_negated_formula(f) == negated(f)

\* Mutant: the `!` is missing.
is_valid_result_not_negated(satisfiable) == satisfiable

\* is_valid: `!is_satisfiable(&negated_formula)`
is_valid_result(satisfiable) == ~satisfiable

\* The formula the loop of the call is seeded with.
Seed(e, f) == IF e = "is_valid" THEN is_valid_negated_formula(f) ELSE f

\* The value the call returns when its is_satisfiable loop returns b.
Return(e, b) == IF e = "is_valid" THEN is_valid_result(b) ELSE b

NoIteration == [theory |-> {}, non_literal |-> <<>>, expansion |-> None]

InitFrom(values) ==
    /\ entry \in {"is_satisfiable", "is_valid", "expand_non_literal_formula", "is_literal"}
    /\ formula \in values
    /\ CASE entry = "expand_non_literal_formula" -> tableau = <<>> /\ pc = "lookup"
         [] entry = "is_literal" -> tableau = <<>> /\ pc = "match"
         [] OTHER -> /\ tableau = from_starting_propositional_formula(Seed(entry, formula))
                     /\ pc = "loop"
    /\ ret = FALSE
    /\ pops = 0
    /\ last = NoIteration
    /\ history = <<>>
    /\ theory_object = {}
    /\ op = NoCall
    /\ pushed = <<>>
    /\ enqueued = tableau
    /\ NoDriver

\* A call with a formula built by the convenience constructors (every child present).
Init == InitFrom(Inputs)

\* A call of is_literal on the formula: `ret` is its result.
IsLiteral ==
    /\ pc = "match"
    /\ ret' = is_literal(formula)
    /\ pc' = "returned"
    /\ UNCHANGED <<entry, formula, tableau, pops, last, history>>
    /\ UNCHANGED objects
    /\ UNCHANGED driver
    /\ UNCHANGED enqueued

\* Mutant: the rule table is not consulted for a formula is_literal accepts.
Lookup_unless_literal ==
    /\ pc = "lookup"
    /\ last' = [theory |-> {}, non_literal |-> <<formula>>,
                expansion |-> IF is_literal(formula)
                              THEN None
                              ELSE expand_non_literal_formula(formula)]
    /\ pc' = "returned"
    /\ UNCHANGED <<entry, formula, tableau, ret, pops, history>>
    /\ UNCHANGED objects
    /\ UNCHANGED driver
    /\ UNCHANGED enqueued

\* A call of the rule table on the formula: its result is recorded in `last`.
Lookup ==
    /\ pc = "lookup"
    /\ last' = [theory |-> {}, non_literal |-> <<formula>>,
                expansion |-> expand_non_literal_formula(formula)]
    /\ pc' = "returned"
    /\ UNCHANGED <<entry, formula, tableau, ret, pops, history>>
    /\ UNCHANGED objects
    /\ UNCHANGED driver
    /\ UNCHANGED enqueued

\* `while !tableau.is_empty()` fails: the function returns false.
ReturnFalse ==
    /\ pc = "loop"
    /\ is_empty(tableau)
    /\ pc' = "returned"
    /\ ret' = Return(entry, FALSE)
    /\ UNCHANGED <<entry, formula, tableau, pops, last, history>>
    /\ UNCHANGED objects
    /\ UNCHANGED driver
    /\ UNCHANGED enqueued

\* One iteration whose popped theory is fully expanded and has no contradictions,
\* on the popped theory and the rest of the tableau: `return true`.
ReturnTruePopped(theory, rest) ==
    /\ pc = "loop"
    /\ ~is_empty(tableau)
    /\ is_fully_expanded(theory)
    /\ \E hc \in has_contradictions(theory) : ~hc
    /\ last' = [theory |-> theory, non_literal |-> <<>>, expansion |-> None]
    /\ tableau' = rest
    /\ pops' = pops + 1
    /\ pc' = "returned"
    /\ ret' = Return(entry, TRUE)
    /\ UNCHANGED <<entry, formula, history>>
    /\ UNCHANGED objects
    /\ UNCHANGED driver
    /\ UNCHANGED enqueued

\* Mutant: a popped theory without contradictions is accepted before it is fully
\* expanded.
ReturnTrue_before_fully_expanded ==
    /\ pc = "loop"
    /\ ~is_empty(tableau)
    /\ LET theory == Head(tableau) IN
       /\ \E hc \in has_contradictions(theory) : ~hc
       /\ last' = [theory |-> theory, non_literal |-> <<>>, expansion |-> None]
    /\ tableau' = Tail(tableau)
    /\ pops' = pops + 1
    /\ pc' = "returned"
    /\ ret' = Return(entry, TRUE)
    /\ UNCHANGED <<entry, formula, history>>
    /\ UNCHANGED objects
    /\ UNCHANGED driver
    /\ UNCHANGED enqueued

\* The accepting iteration of is_satisfiable: pop_theory takes the front of the queue.
ReturnTrue == ReturnTruePopped(Head(tableau), Tail(tableau))

\* Mutant: the popped theory is pushed back instead of its expanded clone.
AlphaArm_pushes_popped_theory(theories, theory, non_literal_formula, out, hc) ==
    IF ~contains(theories, theory) THEN push_theory(theories, theory) ELSE theories

\* The tableau after the Alpha arm: one new theory, pushed unless known or closed.
AlphaArm(theories, theory, non_literal_formula, out, hc) ==
    LET new_theory == IF Len(out) = 2
                      THEN swap_formula2(theory, non_literal_formula, out)
                      ELSE swap_formula(theory, non_literal_formula, out[1])
    IN push_unless_known_or_closed(theories, new_theory, hc[new_theory])

\* Mutant: the second theory is looked up in the tableau as it was before the first
\* theory was pushed.
BetaArm_stale_contains(theories, theory, non_literal_formula, out, hc) ==
    LET new_theory_1 == swap_formula(theory, non_literal_formula, out[1])
        new_theory_2 == swap_formula(theory, non_literal_formula, out[2])
        after_1 == push_unless_known_or_closed(theories, new_theory_1, hc[new_theory_1])
    IN IF ~contains(theories, new_theory_2) /\ ~hc[new_theory_2]
       THEN push_theory(after_1, new_theory_2)
       ELSE after_1

\* The tableau after the Beta arm: two new theories, each pushed unless known or closed.
BetaArm(theories, theory, non_literal_formula, out, hc) ==
    LET new_theory_1 == swap_formula(theory, non_literal_formula, out[1])
        new_theory_2 == swap_formula(theory, non_literal_formula, out[2])
    IN push_unless_known_or_closed(
           push_unless_known_or_closed(theories, new_theory_1, hc[new_theory_1]),
           new_theory_2, hc[new_theory_2])

\* Mutant: the new theories are built empty instead of as clones of the theory.
NewTheories_only_outputs(theory, non_literal_formula, expansion) ==
    CASE expansion.kind = "Alpha" -> {{expansion.out[i] : i \in 1..Len(expansion.out)}}
      [] expansion.kind = "Beta" -> {{expansion.out[1]}, {expansion.out[2]}}
      [] OTHER -> {}

\* The theories an iteration can build from the popped theory and the selected formula.
NewTheories(theory, non_literal_formula, expansion) ==
    CASE expansion.kind = "Alpha" /\ Len(expansion.out) = 2 ->
            {swap_formula2(theory, non_literal_formula, expansion.out)}
      [] expansion.kind = "Alpha" ->
            {swap_formula(theory, non_literal_formula, expansion.out[1])}
      [] expansion.kind = "Beta" ->
            {swap_formula(theory, non_literal_formula, expansion.out[1]),
             swap_formula(theory, non_literal_formula, expansion.out[2])}
      [] OTHER -> {}

\* One iteration that takes the else branch, on the popped theory and the rest of
\* the tableau: select a non-literal, look up its rule, build the new theories and
\* push them.  Either unwrap panics on None.  `pruning` is whether the result of
\* has_contradictions on a new theory is used (as the code does) or taken as false.
ExpandPopped(theory, rest, pruning) ==
    /\ pc = "loop"
    /\ ~is_empty(tableau)
    /\ \/ ~is_fully_expanded(theory)
       \/ \E hc \in has_contradictions(theory) : hc
    /\ \E selected \in get_non_literal_formula(theory) :
         IF selected = <<>>
         THEN /\ pc' = "panicked"
              /\ tableau' = rest
              /\ last' = [theory |-> theory, non_literal |-> <<>>, expansion |-> None]
         ELSE LET non_literal_formula == selected[1]
                  expansion == expand_non_literal_formula(non_literal_formula)
                  news == NewTheories(theory, non_literal_formula, expansion)
              IN
              /\ last' = [theory |-> theory, non_literal |-> selected,
                          expansion |-> expansion]
              /\ \E hc \in [news -> BOOLEAN] :
                   /\ \A t \in news : hc[t] \in IF pruning
                                                  THEN has_contradictions(t)
                                                  ELSE {FALSE}
                   /\ CASE expansion.kind = "Alpha" ->
                             /\ tableau' = AlphaArm(rest, theory, non_literal_formula,
                                                    expansion.out, hc)
                             /\ pc' = "loop"
                        [] expansion.kind = "Beta" ->
                             /\ tableau' = BetaArm(rest, theory, non_literal_formula,
                                                   expansion.out, hc)
                             /\ pc' = "loop"
                        [] OTHER ->
                             /\ tableau' = rest
                             /\ pc' = "panicked"
    /\ pops' = pops + 1
    /\ UNCHANGED <<entry, formula, ret, history>>
    /\ UNCHANGED objects
    /\ UNCHANGED driver
    /\ enqueued' = enqueued \o SubSeq(tableau', Len(tableau), Len(tableau'))

\* The iteration of is_satisfiable: pop_theory takes the front of the queue and the
\* new theories are pushed unless has_contradictions holds of them.
Expand == ExpandPopped(Head(tableau), Tail(tableau), TRUE)

\* After is_valid(f) has returned, the caller evaluates is_satisfiable on the
\* negation of f.
CallIsSatisfiableOfNegation ==
    /\ pc = "returned"
    /\ entry = "is_valid"
    /\ history = <<>>
    /\ history' = <<[entry |-> entry, formula |-> formula, ret |-> ret]>>
    /\ entry' = "is_satisfiable"
    /\ formula' = negated(formula)
    /\ tableau' = from_starting_propositional_formula(Seed("is_satisfiable", negated(formula)))
    /\ pc' = "loop"
    /\ ret' = FALSE
    /\ pops' = 0
    /\ last' = NoIteration
    /\ UNCHANGED objects
    /\ UNCHANGED driver
    /\ enqueued' = tableau'

Next ==
    \/ IsLiteral
    \/ Lookup
    \/ ReturnFalse
    \/ ReturnTrue
    \/ Expand
    \/ CallIsSatisfiableOfNegation

Spec == Init /\ [][Next]_vars

\* The loop runs without interruption: an enabled step is eventually taken.
FairSpec == Spec /\ WF_vars(Next)

\* A call with any value of the formula type: the variants are public, so a
\* caller can build a formula with an absent child.
OptionInit == InitFrom(Inputs \cup AbsentChildFormulas)

OptionSpec == OptionInit /\ [][Next]_vars

(***************************************************************************)
(* The same loop over a stack: the theory is popped from the end the new   *)
(* theories are pushed to (VecDeque::pop_back in place of pop_front), with *)
(* the same rules and the same duplicate and contradiction checks.         *)
(***************************************************************************)
Back(theories) == theories[Len(theories)]

Front(theories) == SubSeq(theories, 1, Len(theories) - 1)

StackInit == Init /\ entry = "is_satisfiable"

StackReturnTrue == ReturnTruePopped(Back(tableau), Front(tableau))

StackExpand == ExpandPopped(Back(tableau), Front(tableau), TRUE)

StackNext ==
    \/ ReturnFalse
    \/ StackReturnTrue
    \/ StackExpand

StackSpec == StackInit /\ [][StackNext]_vars

(***************************************************************************)
(* The same loop without the contradiction check on new theories: a new    *)
(* theory is pushed unless the tableau contains it, whatever               *)
(* has_contradictions would say of it.  Everything else is unchanged.      *)
(***************************************************************************)
UnprunedInit == Init /\ entry = "is_satisfiable"

UnprunedExpand == ExpandPopped(Head(tableau), Tail(tableau), FALSE)

\* `while !tableau.is_empty()` never fails in this loop (a popped theory pushes
\* a new theory unless an equal one is waiting), so it has no returning-false step.
UnprunedNext ==
    \/ ReturnTrue
    \/ UnprunedExpand

UnprunedSpec == UnprunedInit /\ [][UnprunedNext]_vars

(***************************************************************************)
(* Method calls on one Theory object and on one Tableau object, in any     *)
(* order: theory.rs and tableau.rs as their unit tests drive them.  `op`   *)
(* records the last call with its arguments, the object before the call    *)
(* and the value returned.                                                 *)
(***************************************************************************)
\* The formula under n negations.
RECURSIVE negated_times(_, _)
negated_times(f, n) == IF n = 0 THEN f ELSE negated(negated_times(f, n - 1))

\* The formulas added to the Theory object: the chains of negations over a
\* variable, and formulas has_contradictions has no arm for.
TheoryFormulas ==
    {negated_times(variable(v), n) : v \in VariableNames, n \in 0..MaxNegations}
    \cup {conjunction(variable(v), negated(variable(v))) : v \in VariableNames}
    \cup {negated(negated(disjunction(variable(v), variable(v)))) : v \in VariableNames}

\* The formulas the constructed objects start from.
ConstructorFormulas == {variable(v) : v \in VariableNames}

\* The orders in which the formulas of a pushed or looked-up theory are added.
InsertionOrders == UNION {iter(members) : members \in SUBSET ConstructorFormulas}

\* `let mut theory = Theory::new(); theory.add(..); theory.add(..);`
RECURSIVE from_insertions(_)
from_insertions(order) ==
    IF order = <<>>
    THEN Theory_new
    ELSE add(from_insertions(SubSeq(order, 1, Len(order) - 1)), order[Len(order)])

solver == <<ret, last, history, enqueued>>

ApiInit ==
    /\ entry \in {"Theory", "Tableau"}
    /\ formula \in ConstructorFormulas
    /\ pc = "construct"
    /\ tableau = <<>>
    /\ theory_object = {}
    /\ op = NoCall
    /\ pushed = <<>>
    /\ pops = 0
    /\ ret = FALSE
    /\ last = NoIteration
    /\ history = <<>>
    /\ enqueued = <<>>
    /\ NoDriver

\* Theory::new()
TheoryNew ==
    /\ pc = "construct" /\ entry = "Theory"
    /\ theory_object' = Theory_new
    /\ op' = [name |-> "Theory::new"]
    /\ pc' = "object"
    /\ UNCHANGED <<entry, formula, tableau, pushed, pops>>
    /\ UNCHANGED solver
    /\ UNCHANGED driver

\* Theory::from_propositional_formula(formula)
TheoryFromPropositionalFormula ==
    /\ pc = "construct" /\ entry = "Theory"
    /\ theory_object' = from_propositional_formula(formula)
    /\ op' = [name |-> "Theory::from_propositional_formula", arg |-> formula]
    /\ pc' = "object"
    /\ UNCHANGED <<entry, formula, tableau, pushed, pops>>
    /\ UNCHANGED solver
    /\ UNCHANGED driver

\* theory.add(f)
TheoryAdd ==
    /\ pc = "object" /\ entry = "Theory"
    /\ \E f \in TheoryFormulas :
        /\ f \in theory_object \/ Cardinality(theory_object) < MaxMembers
        /\ theory_object' = add(theory_object, f)
        /\ op' = [name |-> "add", arg |-> f, before |-> theory_object]
    /\ UNCHANGED <<entry, formula, pc, tableau, pushed, pops>>
    /\ UNCHANGED solver
    /\ UNCHANGED driver

\* theory.has_contradictions(), the HashSet iterated in some order.
TheoryHasContradictions ==
    /\ pc = "object" /\ entry = "Theory"
    /\ \E order \in iter(theory_object) :
        op' = [name |-> "has_contradictions", before |-> theory_object,
               result |-> has_contradictions_loop(order, <<>>)]
    /\ UNCHANGED <<entry, formula, pc, tableau, theory_object, pushed, pops>>
    /\ UNCHANGED solver
    /\ UNCHANGED driver

\* Tableau::new()
TableauNew ==
    /\ pc = "construct" /\ entry = "Tableau"
    /\ tableau' = Tableau_new
    /\ op' = [name |-> "Tableau::new"]
    /\ pc' = "object"
    /\ UNCHANGED <<entry, formula, theory_object, pushed, pops>>
    /\ UNCHANGED solver
    /\ UNCHANGED driver

\* Tableau::from_starting_propositional_formula(formula)
TableauFromStartingPropositionalFormula ==
    /\ pc = "construct" /\ entry = "Tableau"
    /\ tableau' = from_starting_propositional_formula(formula)
    /\ pushed' = <<<<formula>>>>
    /\ op' = [name |-> "Tableau::from_starting_propositional_formula", arg |-> formula]
    /\ pc' = "object"
    /\ UNCHANGED <<entry, formula, theory_object, pops>>
    /\ UNCHANGED solver
    /\ UNCHANGED driver

\* tableau.push_theory(theory)
TableauPushTheory ==
    /\ pc = "object" /\ entry = "Tableau"
    /\ Len(pushed) < MaxPushes
    /\ \E order \in InsertionOrders :
        /\ tableau' = push_theory(tableau, from_insertions(order))
        /\ pushed' = Append(pushed, order)
        /\ op' = [name |-> "push_theory", arg |-> from_insertions(order), before |-> tableau]
    /\ UNCHANGED <<entry, formula, pc, theory_object, pops>>
    /\ UNCHANGED solver
    /\ UNCHANGED driver

\* tableau.pop_theory()
TableauPopTheory ==
    /\ pc = "object" /\ entry = "Tableau"
    /\ LET popped == pop_theory(tableau)
       IN  /\ tableau' = popped.theories
           /\ pops' = IF popped.result = <<>> THEN pops ELSE pops + 1
           /\ op' = [name |-> "pop_theory", before |-> tableau, result |-> popped.result]
    /\ UNCHANGED <<entry, formula, pc, theory_object, pushed>>
    /\ UNCHANGED solver
    /\ UNCHANGED driver

\* tableau.contains(&theory)
TableauContains ==
    /\ pc = "object" /\ entry = "Tableau"
    /\ \E order \in InsertionOrders :
        op' = [name |-> "contains", arg |-> from_insertions(order), insertions |-> order,
               before |-> tableau, result |-> contains(tableau, from_insertions(order))]
    /\ UNCHANGED <<entry, formula, pc, tableau, theory_object, pushed, pops>>
    /\ UNCHANGED solver
    /\ UNCHANGED driver

\* tableau.is_empty()
TableauIsEmpty ==
    /\ pc = "object" /\ entry = "Tableau"
    /\ op' = [name |-> "is_empty", before |-> tableau, result |-> is_empty(tableau)]
    /\ UNCHANGED <<entry, formula, pc, tableau, theory_object, pushed, pops>>
    /\ UNCHANGED solver
    /\ UNCHANGED driver

ApiNext ==
    \/ TheoryNew
    \/ TheoryFromPropositionalFormula
    \/ TheoryAdd
    \/ TheoryHasContradictions
    \/ TableauNew
    \/ TableauFromStartingPropositionalFormula
    \/ TableauPushTheory
    \/ TableauPopTheory
    \/ TableauContains
    \/ TableauIsEmpty

ApiSpec == ApiInit /\ [][ApiNext]_vars

(***************************************************************************)
(* The branch operations of a Theory: the queries and replacements the     *)
(* loop of is_satisfiable drives a popped theory with, called in any order *)
(* on a theory built from a formula and further additions.                 *)
(***************************************************************************)
\* The members of the theories the branch operations start from: literals of one
\* and two negations, and formulas the rule table expands.
BranchFormulas ==
    {negated_times(variable(v), n) : v \in VariableNames, n \in 0..2}
    \cup {conjunction(variable(v), negated(variable(v))) : v \in VariableNames}
    \cup {negated(negated(disjunction(variable(v), variable(v)))) : v \in VariableNames}

\* The formulas swap_formula and swap_formula2 are asked to replace: members or not,
\* literals or not.
SwapFormulas ==
    ConstructorFormulas
    \cup {conjunction(variable(v), negated(variable(v))) : v \in VariableNames}

\* `Theory::from_propositional_formula(formula)` followed by `add`s.
BranchInit ==
    /\ entry = "Theory"
    /\ formula \in ConstructorFormulas
    /\ pc = "object"
    /\ \E added \in SUBSET BranchFormulas :
        /\ Cardinality(added \cup {formula}) <= MaxMembers
        /\ theory_object = from_propositional_formula(formula) \cup added
    /\ op = NoCall
    /\ tableau = <<>>
    /\ pushed = <<>>
    /\ pops = 0
    /\ ret = FALSE
    /\ last = NoIteration
    /\ history = <<>>
    /\ enqueued = <<>>
    /\ NoDriver

\* theory.swap_formula(&existing, replacement)
TheorySwapFormula ==
    /\ pc = "object" /\ entry = "Theory"
    /\ \E existing \in SwapFormulas, replacement \in ConstructorFormulas :
        /\ theory_object' = swap_formula(theory_object, existing, replacement)
        /\ op' = [name |-> "swap_formula", existing |-> existing,
                  replacements |-> <<replacement>>, before |-> theory_object]
    /\ UNCHANGED <<entry, formula, pc, tableau, pushed, pops>>
    /\ UNCHANGED solver
    /\ UNCHANGED driver

\* theory.swap_formula2(&existing, (replacement_1, replacement_2))
TheorySwapFormula2 ==
    /\ pc = "object" /\ entry = "Theory"
    /\ \E existing \in SwapFormulas, replacements \in ConstructorFormulas \X ConstructorFormulas :
        /\ Cardinality(swap_formula2(theory_object, existing, replacements)) <= MaxMembers
        /\ theory_object' = swap_formula2(theory_object, existing, replacements)
        /\ op' = [name |-> "swap_formula2", existing |-> existing,
                  replacements |-> replacements, before |-> theory_object]
    /\ UNCHANGED <<entry, formula, pc, tableau, pushed, pops>>
    /\ UNCHANGED solver
    /\ UNCHANGED driver

\* theory.is_fully_expanded()
TheoryIsFullyExpanded ==
    /\ pc = "object" /\ entry = "Theory"
    /\ op' = [name |-> "is_fully_expanded", before |-> theory_object,
              result |-> is_fully_expanded(theory_object)]
    /\ UNCHANGED <<entry, formula, pc, tableau, theory_object, pushed, pops>>
    /\ UNCHANGED solver
    /\ UNCHANGED driver

\* theory.get_non_literal_formula(), the HashSet iterated in some order.
TheoryGetNonLiteralFormula ==
    /\ pc = "object" /\ entry = "Theory"
    /\ \E selected \in get_non_literal_formula(theory_object) :
        op' = [name |-> "get_non_literal_formula", before |-> theory_object,
               result |-> selected]
    /\ UNCHANGED <<entry, formula, pc, tableau, theory_object, pushed, pops>>
    /\ UNCHANGED solver
    /\ UNCHANGED driver

\* One rule application to a member that has a rule, as the else branch of
\* is_satisfiable does it: the theory becomes one of the new theories.
TheoryExpand ==
    /\ pc = "object" /\ entry = "Theory"
    /\ \E non_literal_formula \in theory_object :
        LET expansion == expand_non_literal_formula(non_literal_formula) IN
        \E new_theory \in NewTheories(theory_object, non_literal_formula, expansion) :
            /\ Cardinality(new_theory) <= MaxMembers
            /\ theory_object' = new_theory
            /\ op' = [name |-> "expand", non_literal |-> non_literal_formula,
                      expansion |-> expansion, before |-> theory_object]
    /\ UNCHANGED <<entry, formula, pc, tableau, pushed, pops>>
    /\ UNCHANGED solver
    /\ UNCHANGED driver

BranchNext ==
    \/ TheorySwapFormula
    \/ TheorySwapFormula2
    \/ TheoryIsFullyExpanded
    \/ TheoryGetNonLiteralFormula
    \/ TheoryExpand

BranchSpec == BranchInit /\ [][BranchNext]_vars

(***************************************************************************)
(* Text front ends: the string entry point of lib.rs, the variable parser  *)
(* of parser/ and the lexer of lexer.rs.  A text is a sequence of          *)
(* characters; the texts here hold letters, digits, underscores, spaces    *)
(* and tabs, and so no parenthesis or operator.                            *)
(***************************************************************************)
Letters == {"a", "b"}

Digits == {"0"}

Whitespace == {" ", "\t"}

Chars == Letters \cup Digits \cup {"_"} \cup Whitespace

RECURSIVE Texts(_)
Texts(n) ==
    IF n = 0
    THEN {<<>>}
    ELSE Texts(n - 1) \cup {Append(t, c) : t \in {u \in Texts(n - 1) : Len(u) = n - 1}, c \in Chars}

\* The longest prefix of the text whose characters are all in `chars`, and the rest.
RECURSIVE take_while(_, _)
take_while(chars, input) ==
    IF input = <<>> \/ Head(input) \notin chars
    THEN [taken |-> <<>>, remaining |-> input]
    ELSE LET rest == take_while(chars, Tail(input))
         IN  [taken |-> <<Head(input)>> \o rest.taken, remaining |-> rest.remaining]

\* str::trim: the text without its leading and trailing whitespace.
RECURSIVE trim_end(_)
trim_end(input) ==
    IF input # <<>> /\ input[Len(input)] \in Whitespace
    THEN trim_end(SubSeq(input, 1, Len(input) - 1))
    ELSE input

trim(input) == trim_end(take_while(Whitespace, input).remaining)

is_alphabetic_char(c) == c \in Letters

\* nom's alphanumeric0: zero or more ASCII letters or digits.
alphanumeric0(input) == take_while(Letters \cup Digits, input)

ParseError == [ok |-> FALSE]

\* parser::variable::variable: `tuple((verify(anychar, is_alphabetic_char), alphanumeric0))`
variable_parser(input) ==
    IF input = <<>> \/ ~is_alphabetic_char(Head(input))
    THEN ParseError
    ELSE LET rest == alphanumeric0(Tail(input))
         IN  [ok |-> TRUE, remaining |-> rest.remaining,
              output |-> <<Head(input)>> \o rest.taken]

propositional_variable(input) ==
    LET parsed == variable_parser(input)
    IN  IF parsed.ok
        THEN [ok |-> TRUE, remaining |-> parsed.remaining, output |-> variable(parsed.output)]
        ELSE ParseError

\* nom's char(c): the character c at the head of the input.
char(c, input) ==
    IF input # <<>> /\ Head(input) = c
    THEN [ok |-> TRUE, remaining |-> Tail(input)]
    ELSE ParseError

\* nom's tag(t): the text t at the head of the input.
tag(t, input) ==
    IF Len(input) >= Len(t) /\ SubSeq(input, 1, Len(t)) = t
    THEN [ok |-> TRUE, remaining |-> SubSeq(input, Len(t) + 1, Len(input))]
    ELSE ParseError

\* The operator parsers: "-", "^", "|", "->" and "<->".
negation_operator(input) == char("-", input)

and_operator(input) == char("^", input)

or_operator(input) == char("|", input)

implication_operator(input) == tag(<<"-", ">">>, input)

biimplication_operator(input) == tag(<<"<", "-", ">">>, input)

\* `take_while(move |c| " \t".contains(c))`: never fails.
space(input) == take_while(Whitespace, input).remaining

RECURSIVE propositional_formula(_)

\* paired_parentheses(preceded(negation_operator, propositional_formula)):
\* "(" space "-" formula space ")"
negated_formula(input) ==
    LET open == char("(", input) IN
    IF ~open.ok THEN ParseError ELSE
    LET operator == negation_operator(space(open.remaining)) IN
    IF ~operator.ok THEN ParseError ELSE
    LET sub_formula == propositional_formula(operator.remaining) IN
    IF ~sub_formula.ok THEN ParseError ELSE
    LET close == char(")", space(sub_formula.remaining)) IN
    IF ~close.ok THEN ParseError ELSE
    [ok |-> TRUE, remaining |-> close.remaining, output |-> negated(sub_formula.output)]

\* paired_parentheses(separated_pair(preceded(space, propositional_formula),
\* preceded(space, main_connective_parser), preceded(space, propositional_formula))):
\* "(" space space formula space operator space formula space ")".  The pair of
\* main_connective_parser and value_constructor_fn is named by the constructor.
parse_binary_formula(value_constructor, input) ==
    LET main_connective_parser(i) ==
            CASE value_constructor = "Conjunction" -> and_operator(i)
              [] value_constructor = "Disjunction" -> or_operator(i)
              [] value_constructor = "Implication" -> implication_operator(i)
              [] value_constructor = "Biimplication" -> biimplication_operator(i)
        open == char("(", input)
    IN
    IF ~open.ok THEN ParseError ELSE
    LET left_sub_formula == propositional_formula(space(space(open.remaining))) IN
    IF ~left_sub_formula.ok THEN ParseError ELSE
    LET operator == main_connective_parser(space(left_sub_formula.remaining)) IN
    IF ~operator.ok THEN ParseError ELSE
    LET right_sub_formula == propositional_formula(space(operator.remaining)) IN
    IF ~right_sub_formula.ok THEN ParseError ELSE
    LET close == char(")", space(right_sub_formula.remaining)) IN
    IF ~close.ok THEN ParseError ELSE
    [ok |-> TRUE, remaining |-> close.remaining,
     output |-> <<value_constructor, left_sub_formula.output, right_sub_formula.output>>]

conjunction_formula(input) == parse_binary_formula("Conjunction", input)

disjunction_formula(input) == parse_binary_formula("Disjunction", input)

implication_formula(input) == parse_binary_formula("Implication", input)

biimplication_formula(input) == parse_binary_formula("Biimplication", input)

\* parser::propositional_formula::propositional_formula: nom's alt, the first
\* alternative that succeeds.
propositional_formula(input) ==
    CASE propositional_variable(input).ok -> propositional_variable(input)
      [] negated_formula(input).ok -> negated_formula(input)
      [] conjunction_formula(input).ok -> conjunction_formula(input)
      [] disjunction_formula(input).ok -> disjunction_formula(input)
      [] implication_formula(input).ok -> implication_formula(input)
      [] biimplication_formula(input).ok -> biimplication_formula(input)
      [] OTHER -> ParseError

\* parser::parse
parse(input) ==
    LET parsed == propositional_formula(input)
    IN  IF ~parsed.ok
        THEN [ok |-> FALSE, error |-> "failed to parse input"]
        ELSE IF trim(parsed.remaining) # <<>>
             THEN [ok |-> FALSE, error |-> "still input remaining"]
             ELSE [ok |-> TRUE, formula |-> parsed.output]

\* lexer::lex: the Variable token is the longest match of
\* `[a-zA-Z][a-zA-Z0-9_]*`; every other character of these texts is an Error token.
RECURSIVE lex(_)
lex(input) ==
    IF input = <<>>
    THEN [ok |-> TRUE, tokens |-> <<>>]
    ELSE IF Head(input) \notin Letters
         THEN [ok |-> FALSE, tokens |-> <<>>]
         ELSE LET name == take_while(Letters \cup Digits \cup {"_"}, input)
                  rest == lex(name.remaining)
              IN  IF rest.ok
                  THEN [ok |-> TRUE, tokens |-> <<<<"Variable", name.taken>>>> \o rest.tokens]
                  ELSE rest

TextInit ==
    /\ entry \in {"lib::is_satisfiable", "parse", "lex"}
    /\ formula \in Texts(MaxText)
    /\ pc = "call"
    /\ ret = FALSE
    /\ tableau = <<>>
    /\ pops = 0
    /\ last = NoIteration
    /\ history = <<>>
    /\ enqueued = <<>>
    /\ theory_object = {}
    /\ op = NoCall
    /\ pushed = <<>>
    /\ NoDriver

\* Mutant: the whitespace-only test is missing.
LibIsSatisfiable_untrimmed ==
    /\ pc = "call" /\ entry = "lib::is_satisfiable"
    /\ IF formula = <<>>
       THEN pc' = "returned" /\ ret' = [ok |-> FALSE, error |-> "EmptyFormula"]
       ELSE pc' = "panicked" /\ ret' = ret
    /\ UNCHANGED <<entry, formula, tableau, pops, last, history>>
    /\ UNCHANGED objects
    /\ UNCHANGED driver
    /\ UNCHANGED enqueued

\* lib.rs, is_satisfiable(&str): EmptyFormula for an empty or blank text; for any
\* other text build_tableau is called, which is `unimplemented!()` and panics.
LibIsSatisfiable ==
    /\ pc = "call" /\ entry = "lib::is_satisfiable"
    /\ IF formula = <<>> \/ trim(formula) = <<>>
       THEN pc' = "returned" /\ ret' = [ok |-> FALSE, error |-> "EmptyFormula"]
       ELSE pc' = "panicked" /\ ret' = ret
    /\ UNCHANGED <<entry, formula, tableau, pops, last, history>>
    /\ UNCHANGED objects
    /\ UNCHANGED driver
    /\ UNCHANGED enqueued

\* parser::parse(input)
Parse ==
    /\ pc = "call" /\ entry = "parse"
    /\ ret' = parse(formula)
    /\ pc' = "returned"
    /\ UNCHANGED <<entry, formula, tableau, pops, last, history>>
    /\ UNCHANGED objects
    /\ UNCHANGED driver
    /\ UNCHANGED enqueued

\* lexer::lex(input)
Lex ==
    /\ pc = "call" /\ entry = "lex"
    /\ ret' = lex(formula)
    /\ pc' = "returned"
    /\ UNCHANGED <<entry, formula, tableau, pops, last, history>>
    /\ UNCHANGED objects
    /\ UNCHANGED driver
    /\ UNCHANGED enqueued

TextNext ==
    \/ LibIsSatisfiable
    \/ Parse
    \/ Lex

TextSpec == TextInit /\ [][TextNext]_vars

(***************************************************************************)
(* The command-line driver: main.rs.  The input lines are parsed, the      *)
(* formulas are passed to is_satisfiable or is_valid, the results are      *)
(* written.                                                                *)
(***************************************************************************)
\* The lines "a", "b ", "(-a)", "(a^(-a))", "( a | (-a))", "(a->b)", and the
\* ill-formed lines "", "a b" and "(a^b".
DriverLines ==
    {<<"a">>,
     <<"b", " ">>,
     <<"(", "-", "a", ")">>,
     <<"(", "a", "^", "(", "-", "a", ")", ")">>,
     <<"(", " ", "a", " ", "|", " ", "(", "-", "a", ")", ")">>,
     <<"(", "a", "-", ">", "b", ")">>,
     <<>>,
     <<"a", " ", "b">>,
     <<"(", "a", "^", "b">>}

\* args.mode: None, or Some of a character.
Modes == {<<>>, <<"s">>, <<"v">>, <<"V">>, <<"x">>}

to_ascii_lowercase(c) ==
    CASE c = "S" -> "s"
      [] c = "V" -> "v"
      [] OTHER -> c

\* `CliOutputMode::try_from(c).ok()`: <<m>> for Some(m) and <<>> for None.
try_from(c) ==
    CASE to_ascii_lowercase(c) = "s" -> <<"Satisfiability">>
      [] to_ascii_lowercase(c) = "v" -> <<"Validity">>
      [] OTHER -> <<>>

\* `args.mode.map(|c| CliOutputMode::try_from(c).ok()).flatten()`
output_mode(arg) == IF arg = <<>> THEN <<>> ELSE try_from(arg[1])

\* `format_args!("{:?}\n", result)`
format_result(result) == IF result THEN "true\n" ELSE "false\n"

DriverInit ==
    /\ entry = "main"
    /\ mode \in Modes
    /\ inputs \in UNION {[1..n -> DriverLines] : n \in 0..MaxLines}
    /\ formulas = <<>>
    /\ results = <<>>
    /\ stdout = <<>>
    /\ exit_code = 0
    /\ pc = "parse"
    /\ formula = <<>>
    /\ tableau = <<>>
    /\ ret = FALSE
    /\ pops = 0
    /\ last = NoIteration
    /\ history = <<>>
    /\ enqueued = <<>>
    /\ theory_object = {}
    /\ op = NoCall
    /\ pushed = <<>>

\* One step of `inputs.iter().map(|f| match parser::parse(f) {..}).collect()`:
\* the next line is parsed; an ill-formed line ends the process with code 22.
ParseLine ==
    /\ pc = "parse"
    /\ Len(formulas) < Len(inputs)
    /\ LET parsed == parse(inputs[Len(formulas) + 1]) IN
       IF parsed.ok
       THEN /\ formulas' = Append(formulas, parsed.formula)
            /\ pc' = "parse"
            /\ exit_code' = exit_code
       ELSE /\ formulas' = formulas
            /\ pc' = "exited"
            /\ exit_code' = 22
    /\ UNCHANGED <<entry, formula, tableau, ret, pops, last, history, enqueued>>
    /\ UNCHANGED objects
    /\ UNCHANGED <<mode, inputs, results, stdout>>

\* The vector of formulas is collected: `match mode` selects the function.
MatchMode ==
    /\ pc = "parse"
    /\ Len(formulas) = Len(inputs)
    /\ entry' = IF output_mode(mode) = <<"Validity">> THEN "is_valid" ELSE "is_satisfiable"
    /\ pc' = "main"
    /\ UNCHANGED <<formula, tableau, ret, pops, last, history, enqueued>>
    /\ UNCHANGED objects
    /\ UNCHANGED driver

\* Mutant: the formulas are passed to the function as they are parsed.
CallSolver_as_parsed ==
    /\ pc \in {"parse", "main"}
    /\ Len(results) < Len(formulas)
    /\ entry' = IF output_mode(mode) = <<"Validity">> THEN "is_valid" ELSE "is_satisfiable"
    /\ formula' = formulas[Len(results) + 1]
    /\ tableau' = from_starting_propositional_formula(Seed(entry', formula'))
    /\ pc' = "loop"
    /\ ret' = FALSE
    /\ pops' = 0
    /\ last' = NoIteration
    /\ enqueued' = tableau'
    /\ UNCHANGED history
    /\ UNCHANGED objects
    /\ UNCHANGED driver

\* One step of `formulas.iter().map(is_valid).collect()` (or is_satisfiable): the
\* function is called on the next formula.
CallSolver ==
    /\ pc = "main"
    /\ Len(results) < Len(formulas)
    /\ formula' = formulas[Len(results) + 1]
    /\ tableau' = from_starting_propositional_formula(Seed(entry, formula'))
    /\ pc' = "loop"
    /\ ret' = FALSE
    /\ pops' = 0
    /\ last' = NoIteration
    /\ enqueued' = tableau'
    /\ UNCHANGED <<entry, history>>
    /\ UNCHANGED objects
    /\ UNCHANGED driver

\* The function has returned: its boolean is collected.
CollectResult ==
    /\ pc = "returned"
    /\ results' = Append(results, ret)
    /\ pc' = "main"
    /\ UNCHANGED <<entry, formula, tableau, ret, pops, last, history, enqueued>>
    /\ UNCHANGED objects
    /\ UNCHANGED <<mode, inputs, formulas, stdout, exit_code>>

\* One step of `for result in results { stdout.write_fmt(..)?; }`
WriteResult ==
    /\ pc = "main"
    /\ Len(results) = Len(formulas)
    /\ Len(stdout) < Len(results)
    /\ stdout' = Append(stdout, format_result(results[Len(stdout) + 1]))
    /\ UNCHANGED <<entry, formula, tableau, pc, ret, pops, last, history, enqueued>>
    /\ UNCHANGED objects
    /\ UNCHANGED <<mode, inputs, formulas, results, exit_code>>

\* `Ok(())`: the process ends with code 0.
Exit ==
    /\ pc = "main"
    /\ Len(results) = Len(formulas)
    /\ Len(stdout) = Len(results)
    /\ pc' = "exited"
    /\ exit_code' = 0
    /\ UNCHANGED <<entry, formula, tableau, ret, pops, last, history, enqueued>>
    /\ UNCHANGED objects
    /\ UNCHANGED <<mode, inputs, formulas, results, stdout>>

DriverNext ==
    \/ ParseLine
    \/ MatchMode
    \/ CallSolver
    \/ ReturnFalse
    \/ ReturnTrue
    \/ Expand
    \/ CollectResult
    \/ WriteResult
    \/ Exit

DriverSpec == DriverInit /\ [][DriverNext]_vars

(***************************************************************************)
(* Truth-table semantics of formulas, the reference the verdicts are       *)
(* compared with.                                                          *)
(***************************************************************************)
Assignments == [VariableNames -> BOOLEAN]

RECURSIVE Holds(_, _)
Holds(f, assignment) ==
    CASE f[1] = "Variable" -> assignment[f[2]]
      [] f[1] = "Negation" -> ~Holds(f[2], assignment)
      [] f[1] = "Conjunction" -> Holds(f[2], assignment) /\ Holds(f[3], assignment)
      [] f[1] = "Disjunction" -> Holds(f[2], assignment) \/ Holds(f[3], assignment)
      [] f[1] = "Implication" -> Holds(f[2], assignment) => Holds(f[3], assignment)
      [] f[1] = "Biimplication" -> Holds(f[2], assignment) <=> Holds(f[3], assignment)

HasModel(f) == \E assignment \in Assignments : Holds(f, assignment)

Tautology(f) == \A assignment \in Assignments : Holds(f, assignment)

\* The number of nodes (sub-formula occurrences) of a formula.
RECURSIVE Size(_)
Size(f) ==
    CASE f[1] = "Variable" -> 1
      [] f[1] = "Negation" -> 1 + Size(f[2])
      [] OTHER -> 1 + Size(f[2]) + Size(f[3])

Returned(e) == pc = "returned" /\ entry = e

(***************************************************************************)
(* Claims                                                                  *)
(***************************************************************************)

\* C1: is_valid(f) returns exactly the negation of what is_satisfiable(Negation(f))
\* returns: when the caller has evaluated is_valid(f) and then
\* is_satisfiable(Negation(f)), the first result is the negation of the second.
C1_ValidIsNotSatisfiableOfNegation ==
    (Returned("is_satisfiable") /\ history # <<>>)
        => /\ history[1].entry = "is_valid"
           /\ formula = negated(history[1].formula)
           /\ history[1].ret = ~ret

\* Both calls have returned and is_valid(f) answered true for some f.
C1_Witness ==
    /\ Returned("is_satisfiable")
    /\ history # <<>>
    /\ history[1].ret = TRUE
    /\ pops > 1

\* C2: soundness: if is_satisfiable(f) returns true, some truth assignment makes f true.
C2_Sound == (Returned("is_satisfiable") /\ ret) => HasModel(formula)

\* C3: completeness: if some truth assignment makes f true, is_satisfiable(f) returns
\* true (a false answer is only given for formulas without a satisfying assignment).
C3_Complete == (Returned("is_satisfiable") /\ HasModel(formula)) => ret

\* is_satisfiable answered true for a satisfiable formula at its third branch or
\* later, with other branches still enqueued.
C3_Witness ==
    /\ Returned("is_satisfiable")
    /\ HasModel(formula)
    /\ ret
    /\ pops >= 3
    /\ ~is_empty(tableau)

\* C4: is_valid(f) returns true exactly when f is true under every truth assignment.
C4_ValidIffTautology == Returned("is_valid") => (ret <=> Tautology(formula))

\* The bound on the number of processed branches for a seed formula of n nodes.
BranchBound(n) == 2 ^ n

\* C5: the is_satisfiable loop eventually stops (returns true, or false on the empty
\* queue), and the number of branches it has processed never exceeds a function of
\* the seed formula's sub-formula count alone.
C5_Terminates ==
    /\ (pc = "loop") ~> (pc = "returned")
    /\ [](pops <= BranchBound(Size(Seed(entry, formula))))

\* The loop stopped on the empty queue after processing several branches.
C5_Witness ==
    /\ pc = "returned"
    /\ entry = "is_satisfiable"
    /\ ~ret
    /\ is_empty(tableau)
    /\ pops >= 4

\* The formula the rule table was last applied to, and what it returned.
RuleInput == last.non_literal[1]
RuleOutput == last.expansion
RuleApplied == last.non_literal # <<>>
NegationOf(connective) == RuleInput[1] = "Negation" /\ RuleInput[2][1] = connective

\* C6: the rule table expands (A <-> B) by the alpha rule into (A -> B) and (B -> A).
C6_BiimplicationRule ==
    (RuleApplied /\ RuleInput[1] = "Biimplication")
        => RuleOutput = [kind |-> "Alpha",
                         out |-> <<implication(RuleInput[2], RuleInput[3]),
                                   implication(RuleInput[3], RuleInput[2])>>]

\* C7: the rule table classifies as alpha and returns: (A ^ B) -> A and B;
\* -(A | B) -> -A and -B; -(A -> B) -> A and -B; -(-A) -> the single formula A.
C7_AlphaRules ==
    RuleApplied =>
        /\ RuleInput[1] = "Conjunction"
            => RuleOutput = [kind |-> "Alpha", out |-> <<RuleInput[2], RuleInput[3]>>]
        /\ NegationOf("Disjunction")
            => RuleOutput = [kind |-> "Alpha",
                             out |-> <<negated(RuleInput[2][2]), negated(RuleInput[2][3])>>]
        /\ NegationOf("Implication")
            => RuleOutput = [kind |-> "Alpha",
                             out |-> <<RuleInput[2][2], negated(RuleInput[2][3])>>]
        /\ NegationOf("Negation")
            => RuleOutput = [kind |-> "Alpha", out |-> <<RuleInput[2][2]>>]

\* The loop applied the rule of a negated implication with non-trivial parts.
C7_Witness ==
    /\ entry = "is_satisfiable"
    /\ RuleApplied
    /\ NegationOf("Implication")
    /\ RuleOutput.kind = "Alpha"
    /\ Len(RuleOutput.out) = 2
    /\ RuleInput[2][2][1] # "Variable"

\* C8: the rule table classifies as beta and returns exactly two branch heads:
\* (A | B) -> A / B; -(A ^ B) -> -A / -B; (A -> B) -> -A / B;
\* -(A <-> B) -> (A ^ -B) / (B ^ -A).
C8_BetaRules ==
    RuleApplied =>
        /\ RuleInput[1] = "Disjunction"
            => RuleOutput = [kind |-> "Beta", out |-> <<RuleInput[2], RuleInput[3]>>]
        /\ NegationOf("Conjunction")
            => RuleOutput = [kind |-> "Beta",
                             out |-> <<negated(RuleInput[2][2]), negated(RuleInput[2][3])>>]
        /\ RuleInput[1] = "Implication"
            => RuleOutput = [kind |-> "Beta",
                             out |-> <<negated(RuleInput[2]), RuleInput[3]>>]
        /\ NegationOf("Biimplication")
            => RuleOutput = [kind |-> "Beta",
                             out |-> <<conjunction(RuleInput[2][2], negated(RuleInput[2][3])),
                                       conjunction(RuleInput[2][3], negated(RuleInput[2][2]))>>]

\* The loop applied the rule of an implication and enqueued both branch heads.
C8_Witness ==
    /\ entry = "is_satisfiable"
    /\ RuleApplied
    /\ RuleInput[1] = "Implication"
    /\ RuleOutput.kind = "Beta"
    /\ Len(tableau) >= 2
    /\ tableau[Len(tableau) - 1] = {RuleOutput.out[1]}
    /\ tableau[Len(tableau)] = {RuleOutput.out[2]}

\* The formulas a, (a ^ a), (a | a), (a ^ b), (a | b), (a -> b), (a <-> b) for every
\* variable a and every variable b other than a.
C9_Formulas ==
    UNION {{variable(a), conjunction(variable(a), variable(a)),
            disjunction(variable(a), variable(a))} : a \in VariableNames}
    \cup UNION {UNION {{conjunction(variable(a), variable(b)),
                        disjunction(variable(a), variable(b)),
                        implication(variable(a), variable(b)),
                        biimplication(variable(a), variable(b))}
                       : b \in VariableNames \ {a}}
                : a \in VariableNames}

\* C9: each of these formulas is reported satisfiable by is_satisfiable and not valid
\* by is_valid.
C9_SatisfiableNotValid ==
    (pc = "returned" /\ formula \in C9_Formulas)
        => /\ entry = "is_satisfiable" => ret = TRUE
           /\ entry = "is_valid" => ret = FALSE

\* is_valid has answered false for a biimplication of two different variables.
C9_Witness ==
    /\ Returned("is_valid")
    /\ formula \in C9_Formulas
    /\ formula[1] = "Biimplication"
    /\ ret = FALSE

\* The contradictions (a ^ -a).
C10_Formulas == {conjunction(variable(a), negated(variable(a))) : a \in VariableNames}

\* C10: (a ^ -a) is reported unsatisfiable by is_satisfiable and not valid by is_valid.
C10_ContradictionUnsatisfiableNotValid ==
    (pc = "returned" /\ formula \in C10_Formulas)
        => /\ entry = "is_satisfiable" => ret = FALSE
           /\ entry = "is_valid" => ret = FALSE

\* is_satisfiable has answered false for (a ^ -a): its only branch was closed.
C10_Witness ==
    /\ Returned("is_satisfiable")
    /\ formula \in C10_Formulas
    /\ ret = FALSE
    /\ pops = 1
    /\ is_empty(tableau)

\* C11: for every literal L that is a variable or a negated variable and all
\* variables a, b: (L | -L), (L -> L), (L <-> L) and ((a ^ b) -> a) are reported
\* satisfiable by is_satisfiable and valid by is_valid.
C11_TautologiesSatisfiableAndValid ==
    (pc = "returned" /\ formula \in TestTautologies)
        => /\ entry = "is_satisfiable" => ret = TRUE
           /\ entry = "is_valid" => ret = TRUE

\* is_valid has answered true for (L <-> L) with L a negated variable.
C11_Witness ==
    /\ Returned("is_valid")
    /\ formula \in TestTautologies
    /\ formula[1] = "Biimplication"
    /\ formula[2][1] = "Negation"
    /\ ret = TRUE

\* The formula under a formula's leading negations.
RECURSIVE Innermost(_)
Innermost(f) == IF f[1] = "Negation" THEN Innermost(f[2]) ELSE f

\* The number of leading negations of a formula.
RECURSIVE Negations(_)
Negations(f) == IF f[1] = "Negation" THEN 1 + Negations(f[2]) ELSE 0

\* A chain of zero or more negations over a variable.
NegationChain(f) == Innermost(f)[1] = "Variable"

Called(name) == pc = "object" /\ op.name = name

\* Some variable occurs in the theory under an even and under an odd number of
\* negations.
ParityContradiction(theory) ==
    \E p \in theory, n \in theory :
        /\ NegationChain(p) /\ NegationChain(n)
        /\ Innermost(p) = Innermost(n)
        /\ Negations(p) % 2 = 0
        /\ Negations(n) % 2 = 1

\* Some variable is a member and its negation (one negation) is a member.
DirectContradiction(theory) ==
    \E v \in VariableNames : variable(v) \in theory /\ negated(variable(v)) \in theory

\* C13 (as stated): has_contradictions returns true exactly when, for some
\* variable v, both v and -v (exactly one negation) are members of the theory.
C13_DirectContradictionOnly ==
    Called("has_contradictions") => (op.result <=> DirectContradiction(op.before))

\* C13 (amended): has_contradictions returns true exactly when, for some
\* variable v, a member is v under an even number of negations and a member is v
\* under an odd number of negations; members that are not chains of negations
\* over a variable are skipped.
C13_ChainsCountedByParity ==
    Called("has_contradictions") => (op.result <=> ParityContradiction(op.before))

\* has_contradictions returned true for a theory with no variable beside its
\* own single negation, and with a member that is skipped.
C13_Witness ==
    /\ Called("has_contradictions")
    /\ op.result = TRUE
    /\ ~DirectContradiction(op.before)
    /\ \E f \in op.before : ~NegationChain(f)

\* C14: has_contradictions counts a chain of n negations over v as a positive
\* occurrence of v for even n and a negative one for odd n, and its result is
\* the same for every scan order: true exactly when some variable has both
\* occurrences.  {a, --a} and {-a, ---a} are not contradictory; {a, -a} and
\* {-a, ----a} are.
C14_ParityWhateverTheOrder ==
    LET a == variable("a")
    IN  /\ entry = "Theory" =>
               has_contradictions(theory_object) = {ParityContradiction(theory_object)}
        /\ has_contradictions({a, negated_times(a, 2)}) = {FALSE}
        /\ has_contradictions({negated_times(a, 1), negated_times(a, 3)}) = {FALSE}
        /\ has_contradictions({a, negated_times(a, 1)}) = {TRUE}
        /\ has_contradictions({negated_times(a, 1), negated_times(a, 4)}) = {TRUE}

\* has_contradictions returned true for {-a, ----a}, as it does in both orders.
C14_Witness ==
    /\ Called("has_contradictions")
    /\ op.before = {negated_times(variable("a"), 1), negated_times(variable("a"), 4)}
    /\ op.result = TRUE
    /\ has_contradictions(op.before) = {TRUE}

\* C15: add is idempotent: adding a formula that is a member leaves the member
\* set and its count unchanged, adding one that is not raises the count by
\* exactly one; the theory is the member set before the call with the formula.
C15_AddIdempotent ==
    Called("add") =>
        /\ theory_object = op.before \cup {op.arg}
        /\ op.arg \in op.before =>
               /\ theory_object = op.before
               /\ Cardinality(theory_object) = Cardinality(op.before)
        /\ op.arg \notin op.before =>
               Cardinality(theory_object) = Cardinality(op.before) + 1

\* A formula was added to a theory of several members that already held it.
C15_Witness ==
    /\ Called("add")
    /\ op.arg \in op.before
    /\ Cardinality(op.before) >= 2
    /\ theory_object = op.before

\* The formulas added in an insertion order.
Members(order) == {order[i] : i \in 1..Len(order)}

\* The positions in `pushed` of the theories still enqueued.
Enqueued == (pops + 1)..Len(pushed)

\* C16: Tableau.contains(t) is true exactly when some theory still enqueued has
\* the same member set as t, whatever the orders in which the two were filled.
C16_ContainsBySetEquality ==
    Called("contains") =>
        (op.result <=> \E i \in Enqueued : Members(pushed[i]) = Members(op.insertions))

\* contains returned true for a theory of two members that no enqueued theory
\* was filled in the same order as.
C16_Witness ==
    /\ Called("contains")
    /\ op.result = TRUE
    /\ Len(op.insertions) = 2
    /\ \A i \in Enqueued : pushed[i] # op.insertions

\* C17: at every point of a run of is_satisfiable, no two theories held in the
\* tableau queue are set-equal (the two successors of one beta step included).
C17_NoEqualTheoriesEnqueued ==
    entry \in {"is_satisfiable", "is_valid"}
        => \A i \in 1..Len(tableau) : \A j \in 1..Len(tableau) :
               tableau[i] = tableau[j] => i = j

\* A beta step whose two successors are the same theory has enqueued it once.
C17_Witness ==
    /\ entry = "is_satisfiable"
    /\ pc = "loop"
    /\ last.expansion.kind = "Beta"
    /\ last.expansion.out[1] = last.expansion.out[2]
    /\ last.theory = {last.non_literal[1]}
    /\ tableau = <<{last.expansion.out[1]}>>

\* C18: the Tableau is first-in first-out: the queue is the pushed theories not
\* yet popped, in push order; pop_theory returns the earliest pushed of them, and
\* none when the queue is empty; is_empty is true exactly when every pushed
\* theory has been popped.
C18_FirstInFirstOut ==
    /\ (entry = "Tableau" /\ pc = "object") =>
           /\ Len(tableau) = Len(pushed) - pops
           /\ \A i \in Enqueued : tableau[i - pops] = Members(pushed[i])
    /\ Called("pop_theory") =>
           IF op.before = <<>>
           THEN op.result = <<>> /\ tableau = <<>>
           ELSE op.result = <<Members(pushed[pops])>>
    /\ Called("is_empty") => (op.result <=> pops = Len(pushed))

\* pop_theory returned a theory while a different, later pushed one stays
\* enqueued.
C18_Witness ==
    /\ Called("pop_theory")
    /\ op.result # <<>>
    /\ tableau # <<>>
    /\ op.result[1] # tableau[Len(tableau)]
    /\ pops >= 2

\* C19: Tableau::new() is empty; Tableau::from_starting_propositional_formula(f)
\* holds exactly one theory, whose member set is {f}; and
\* Theory::from_propositional_formula(f) has exactly the one member f.
C19_Constructors ==
    /\ Called("Tableau::new") => is_empty(tableau) /\ Len(tableau) = 0
    /\ Called("Tableau::from_starting_propositional_formula") =>
           Len(tableau) = 1 /\ tableau[1] = {op.arg}
    /\ Called("Theory::from_propositional_formula") =>
           theory_object = {op.arg} /\ Cardinality(theory_object) = 1

\* A tableau was constructed from a starting formula.
C19_Witness ==
    /\ Called("Tableau::from_starting_propositional_formula")
    /\ op.arg = formula
    /\ Len(tableau) = 1
    /\ formula \in tableau[1]

\* C20: the rule table is total over non-literals: for every formula with all
\* children present on which is_literal is false, expand_non_literal_formula returns
\* Alpha or Beta, so the unwrap of the lookup in is_satisfiable never fails.
C20_RuleTableTotal ==
    /\ pc # "panicked"
    /\ (RuleApplied /\ ~is_literal(RuleInput)) => RuleOutput.kind \in {"Alpha", "Beta"}

\* The loop has looked up the rule of a doubly negated non-literal and goes on.
C20_Witness ==
    /\ entry = "is_satisfiable"
    /\ pc = "loop"
    /\ RuleApplied
    /\ ~is_literal(RuleInput)
    /\ NegationOf("Negation")
    /\ RuleOutput.kind = "Alpha"

C22_Replace ==
    (Called("swap_formula") \/ Called("swap_formula2")) =>
        /\ Len(op.replacements) = (IF op.name = "swap_formula" THEN 1 ELSE 2)
        /\ IF op.existing \in op.before
           THEN theory_object = (op.before \ {op.existing}) \cup Members(op.replacements)
           ELSE theory_object = op.before

\* swap_formula2 replaced a member by two different formulas, one of which the
\* theory did not hold.
C22_Witness ==
    /\ Called("swap_formula2")
    /\ op.existing \in op.before
    /\ op.existing \notin theory_object
    /\ op.replacements[1] # op.replacements[2]
    /\ \E i \in 1..2 : op.replacements[i] \notin op.before
    /\ Members(op.replacements) \subseteq theory_object

\* A Variable or a Negation of a Variable.
OneLevelLiteral(f) == f[1] = "Variable" \/ (f[1] = "Negation" /\ f[2][1] = "Variable")

Blank(text) == \A i \in 1..Len(text) : text[i] \in Whitespace

\* C24: the string entry point is_satisfiable(&str) returns the error value
\* EmptyFormula, without building a tableau, for every input that is empty or
\* consists only of whitespace.
C24_BlankIsEmptyFormula ==
    (entry = "lib::is_satisfiable" /\ pc # "call" /\ Blank(formula)) =>
        /\ pc = "returned"
        /\ ret = [ok |-> FALSE, error |-> "EmptyFormula"]
        /\ tableau = <<>>

\* The entry point returned EmptyFormula for a text of spaces and tabs.
C24_Witness ==
    /\ Returned("lib::is_satisfiable")
    /\ Len(formula) >= 2
    /\ \E i \in 1..Len(formula) : formula[i] = "\t"
    /\ \E i \in 1..Len(formula) : formula[i] = " "
    /\ ret = [ok |-> FALSE, error |-> "EmptyFormula"]

\* A letter followed by letters, digits or underscores.
Identifier(text) ==
    /\ text # <<>>
    /\ text[1] \in Letters
    /\ \A i \in 2..Len(text) : text[i] \in Letters \cup Digits \cup {"_"}

\* C25: the parser accepts as a variable every identifier that starts with a
\* letter and continues with letters, digits or underscores, consuming the whole
\* identifier, and rejects identifiers that start with a digit or an underscore.
C25_IdentifiersParse ==
    Returned("parse") =>
        /\ Identifier(formula) => ret = [ok |-> TRUE, formula |-> variable(formula)]
        /\ (formula # <<>> /\ formula[1] \in Digits \cup {"_"}) => ~ret.ok

\* The rule of the last lookup or iteration is one of the two biimplication rows.
BiimplicationRow == RuleInput[1] = "Biimplication" \/ NegationOf("Biimplication")

\* C26 (as stated): each output formula of every alpha and beta rule has
\* strictly fewer sub-formula nodes than the rule's input formula.
C26_OutputsStrictlySmaller ==
    (RuleApplied /\ RuleOutput.kind # "None") =>
        \A i \in 1..Len(RuleOutput.out) : Size(RuleOutput.out[i]) < Size(RuleInput)

\* C26 (amended): no output formula of an alpha or beta rule has more nodes than
\* the rule's input; the outputs have strictly fewer nodes for every row but
\* the rows of A<->B and -(A<->B), whose outputs have exactly as many.
C26_OutputsNeverLarger ==
    (RuleApplied /\ RuleOutput.kind # "None") =>
        \A i \in 1..Len(RuleOutput.out) :
            /\ Size(RuleOutput.out[i]) <= Size(RuleInput)
            /\ Size(RuleOutput.out[i]) = Size(RuleInput) <=> BiimplicationRow

\* An iteration of the loop expanded a biimplication into formulas of its own size.
C26_Witness ==
    /\ pc = "loop"
    /\ RuleApplied
    /\ RuleInput[1] = "Biimplication"
    /\ RuleOutput.kind = "Alpha"
    /\ Size(RuleOutput.out[1]) = Size(RuleInput)
    /\ Size(RuleInput) >= 4

\* C27 (as stated): during one run of is_satisfiable no theory is enqueued a
\* second time after having been enqueued earlier, even if it has been popped in
\* between.
C27_NeverEnqueuedTwice ==
    \A i \in 1..Len(enqueued), j \in 1..Len(enqueued) :
        i < j => enqueued[i] # enqueued[j]

\* C27 (amended): branches are de-duplicated against the queue only: no theory
\* is enqueued while a set-equal theory is in the queue, and a theory enqueued a
\* second time was popped before.
C27_EnqueuedTwiceOnlyOncePopped ==
    /\ pc = "loop" => tableau = SubSeq(enqueued, pops + 1, Len(enqueued))
    /\ \A i \in 1..Len(enqueued), j \in 1..Len(enqueued) :
           (i < j /\ enqueued[i] = enqueued[j]) => i <= pops

\* A theory popped and expanded earlier in the run is in the queue again.
C27_Witness ==
    /\ pc = "loop"
    /\ \E i \in 1..pops : \E j \in (pops + 1)..Len(enqueued) :
           /\ enqueued[i] = enqueued[j]
           /\ tableau[j - pops] = enqueued[i]

\* C28: every theory that is ever held in the tableau queue, the seed
\* included, is free of contradictions and is non-empty.
C28_EnqueuedTheoriesOpen ==
    /\ \A i \in 1..Len(enqueued) :
           /\ enqueued[i] # {}
           /\ ~ParityContradiction(enqueued[i])
           /\ has_contradictions(enqueued[i]) = {FALSE}
    /\ \A i \in 1..Len(tableau) : \E j \in 1..Len(enqueued) : tableau[i] = enqueued[j]

\* An iteration built a contradictory theory and an open one, and enqueued only
\* the open one.
C28_Witness ==
    /\ pc = "loop"
    /\ RuleApplied
    /\ \E closed \in NewTheories(last.theory, RuleInput, RuleOutput) :
           /\ ParityContradiction(closed)
           /\ \A i \in 1..Len(enqueued) : enqueued[i] # closed
    /\ \E open \in NewTheories(last.theory, RuleInput, RuleOutput) :
           /\ ~ParityContradiction(open)
           /\ enqueued[Len(enqueued)] = open

\* C29: whenever a popped theory is not an open fully-expanded branch, it
\* contains a non-literal, so the selection in the else branch never yields
\* none: no fully expanded but contradictory theory is ever popped.
C29_ElseBranchSelects ==
    /\ (pc = "loop" /\ ~is_empty(tableau)) =>
           LET theory == Head(tableau)
           IN  (~is_fully_expanded(theory) \/ TRUE \in has_contradictions(theory)) =>
                   /\ ~is_fully_expanded(theory)
                   /\ get_non_literal_formula(theory) \subseteq {<<f>> : f \in theory}
    /\ (pops > 0 /\ ~(pc = "returned" /\ ret = Return(entry, TRUE))) =>
           /\ last.non_literal # <<>>
           /\ last.non_literal[1] \in last.theory
           /\ ~is_literal(last.non_literal[1])
    /\ pops > 0 => ~(is_fully_expanded(last.theory) /\ ParityContradiction(last.theory))

\* The else branch selected the non-literal of a popped theory that also holds
\* a literal.
C29_Witness ==
    /\ pc = "loop"
    /\ pops >= 2
    /\ last.non_literal # <<>>
    /\ \E f \in last.theory : is_literal(f)
    /\ last.non_literal[1] \in last.theory
    /\ ~is_literal(last.non_literal[1])

\* C30: contradiction is preserved by expansion: if has_contradictions holds
\* for a theory, it holds for every theory a rule application to one of its
\* members yields, so a contradictory branch never leads to an open
\* fully-expanded branch.
C30_ContradictionPreserved ==
    [][(op'.name = "expand" /\ TRUE \in has_contradictions(theory_object)) =>
           /\ has_contradictions(theory_object') = {TRUE}
           /\ ~(is_fully_expanded(theory_object') /\ ~ParityContradiction(theory_object'))]_vars

\* A beta rule was applied to a member of a contradictory theory, and the new
\* theory is contradictory.
C30_Witness ==
    /\ Called("expand")
    /\ op.expansion.kind = "Beta"
    /\ has_contradictions(op.before) = {TRUE}
    /\ has_contradictions(theory_object) = {TRUE}
    /\ op.non_literal \notin theory_object

(***************************************************************************)
(* The verdict as a function of the formula alone: a formula is read as    *)
(* its row of the rule table reads it (all outputs of an Alpha row, one    *)
(* output of a Beta row), a formula without a row as a literal.            *)
(***************************************************************************)
RECURSIVE TableHolds(_, _)
TableHolds(f, assignment) ==
    LET expansion == expand_non_literal_formula(f) IN
    CASE expansion.kind = "Alpha" ->
            \A i \in 1..Len(expansion.out) : TableHolds(expansion.out[i], assignment)
      [] expansion.kind = "Beta" ->
            \E i \in 1..Len(expansion.out) : TableHolds(expansion.out[i], assignment)
      [] OTHER -> Holds(f, assignment)

Verdict(f) == \E assignment \in Assignments : TableHolds(f, assignment)

NonLiterals(theory) == {f \in theory : ~is_literal(f)}

\* C31: the boolean returned by is_satisfiable (and by is_valid through it) is a
\* function of the formula alone: every run, whichever non-literal member the
\* selection picks at each step, returns the value Verdict gives the formula.
C31_VerdictDeterministic ==
    /\ Returned("is_satisfiable") => (ret <=> Verdict(formula))
    /\ Returned("is_valid") => (ret <=> ~Verdict(negated(formula)))

\* A finished run in which a popped theory offered the selection two non-literals.
C31_Witness ==
    /\ Returned("is_satisfiable")
    /\ \E i \in 1..pops : Cardinality(NonLiterals(enqueued[i])) >= 2

\* C32: the loop run over a stack returns the boolean is_satisfiable returns: every
\* last-in-first-out run ends without a panic in the value Verdict gives the
\* formula, which is the value of every first-in-first-out run.
C32_StackSameVerdict ==
    /\ pc # "panicked"
    /\ Returned("is_satisfiable") => (ret <=> Verdict(formula))

\* A stack run that accepted a theory the queue would not have popped at that
\* point, with older theories still waiting.
C32_Witness ==
    /\ Returned("is_satisfiable")
    /\ ret
    /\ tableau # <<>>
    /\ pops >= 2
    /\ last.theory # enqueued[pops]

InLoopCall == entry \in {"is_satisfiable", "is_valid"}

\* The popped theory is one the loop answers true at.
Accepted(theory) == (\A f \in theory : is_literal(f)) /\ ~ParityContradiction(theory)

C33_Verdict ==
    /\ (InLoopCall /\ pc = "loop" /\ pops = 0) =>
            tableau = <<{Seed(entry, formula)}>>
    /\ (InLoopCall /\ pc = "returned" /\ ret = Return(entry, TRUE)) =>
            /\ pops >= 1
            /\ last.theory = enqueued[pops]
            /\ Accepted(enqueued[pops])
            /\ \A i \in 1..(pops - 1) : ~Accepted(enqueued[i])
            /\ tableau = SubSeq(enqueued, pops + 1, Len(enqueued))
    /\ (InLoopCall /\ pc = "returned" /\ ret = Return(entry, FALSE)) =>
            /\ tableau = <<>>
            /\ pops = Len(enqueued)

\* C33: the search starts with the single seed theory, answers true at the first
\* popped theory that is fully expanded and free of contradictions (the theories
\* behind it stay in the queue, unpopped), answers false only with the queue empty,
\* sets the verdict only in the step that returns, and takes no step of the loop
\* after it has returned.
C33_OneVerdictThenStop ==
    /\ []C33_Verdict
    /\ [][(pc = "loop" /\ pc' = "loop") => ret' = ret]_vars
    /\ [][pc = "returned" => (pops' = 0 /\ history' # history)]_vars

\* A true answer at the second or a later pop, with theories left in the queue.
C33_Witness ==
    /\ Returned("is_satisfiable")
    /\ ret
    /\ pops >= 2
    /\ tableau # <<>>

\* The candidate theories of a step, in the order they are built: from the popped
\* theory and the selected formula only.
Candidates(theory, f, expansion) ==
    LET rest == theory \ {f} IN
    CASE expansion.kind = "Alpha" -> <<rest \cup Members(expansion.out)>>
      [] expansion.kind = "Beta" -> <<rest \cup {expansion.out[1]},
                                      rest \cup {expansion.out[2]}>>
      [] OTHER -> <<>>

\* The candidates that are enqueued: those not waiting in the queue already and
\* without contradictions, an equal second candidate once.
Admitted(candidates, waiting) ==
    LET Admissible(c) == ~contains(waiting, c) /\ ~ParityContradiction(c)
        once == IF Len(candidates) = 2 /\ candidates[1] = candidates[2]
                THEN <<candidates[1]>>
                ELSE candidates
    IN SelectSeq(once, Admissible)

\* C34: an expansion step pops T, selects a member f of T and enqueues nothing but
\* candidates built from T and f: the one candidate (T \ {f}) with the outputs
\* for an alpha row, the two candidates (T \ {f}) with o1 and (T \ {f}) with o2
\* for a beta row, the second built from T and not from the first; at most one
\* (alpha) or two (beta) theories are enqueued and the waiting theories are kept.
C34_StepFrame ==
    [][(pc = "loop" /\ pc' = "loop" /\ pops' = pops + 1) =>
         LET T == last'.theory
             f == last'.non_literal[1]
             expansion == last'.expansion
             candidates == Candidates(T, f, expansion)
             new == SubSeq(enqueued', Len(enqueued) + 1, Len(enqueued'))
         IN /\ T = Head(tableau)
            /\ f \in T
            /\ expansion = expand_non_literal_formula(f)
            /\ Len(candidates) = IF expansion.kind = "Alpha" THEN 1 ELSE 2
            /\ new = Admitted(candidates, Tail(tableau))
            /\ Len(new) <= Len(candidates)
            /\ tableau' = Tail(tableau) \o new]_vars

\* A beta step on a theory with a second member that enqueued both candidates.
C34_Witness ==
    /\ pc = "loop"
    /\ RuleApplied
    /\ last.expansion.kind = "Beta"
    /\ Cardinality(last.theory) >= 2
    /\ Len(enqueued) >= 3
    /\ LET rest == last.theory \ {RuleInput} IN
       /\ enqueued[Len(enqueued) - 1] = rest \cup {last.expansion.out[1]}
       /\ enqueued[Len(enqueued)] = rest \cup {last.expansion.out[2]}
       /\ last.expansion.out[1] # last.expansion.out[2]
       /\ Len(tableau) >= 2

C36_NoRuleReported ==
    (InLoopCall /\ RuleApplied /\ RuleOutput = None) => pc = "returned"

RECURSIVE HasBiimplication(_)
HasBiimplication(f) ==
    CASE f[1] = "Variable" -> FALSE
      [] f[1] = "Negation" -> HasBiimplication(f[2])
      [] OTHER -> f[1] = "Biimplication" \/ HasBiimplication(f[2]) \/ HasBiimplication(f[3])

\* Some sub-formula is a variable under two or more negations.
RECURSIVE HasNestedLiteral(_)
HasNestedLiteral(f) ==
    CASE f[1] = "Variable" -> FALSE
      [] f[1] = "Negation" ->
            (Innermost(f)[1] = "Variable" /\ Negations(f) >= 2) \/ HasNestedLiteral(f[2])
      [] OTHER -> HasNestedLiteral(f[2]) \/ HasNestedLiteral(f[3])

\* C37: for a formula without a biimplication, is_satisfiable returns true exactly
\* when some truth assignment satisfies the formula, also when the formula holds
\* variables under two or more negations, which is_literal takes for literals.
C37_DecidesWithoutBiimplication ==
    (Returned("is_satisfiable") /\ ~HasBiimplication(formula)) =>
        (ret <=> HasModel(formula))

\* An unsatisfiable formula with a nested-negation literal, answered false after
\* the last step built a theory that is closed by a chain of negations.
C37_Witness ==
    /\ Returned("is_satisfiable")
    /\ ~HasBiimplication(formula)
    /\ HasNestedLiteral(formula)
    /\ ~ret
    /\ RuleApplied
    /\ \E t \in Members(Candidates(last.theory, RuleInput, last.expansion)) :
         /\ ParityContradiction(t)
         /\ ~DirectContradiction(t)

IllFormed(line) == ~parse(line).ok

LineNames == {<<"a">>, <<"b">>}

\* The boolean the truth table gives a well-formed line in the mode of the run.
LineAnswer(line) ==
    LET f == parse(line).formula
        assignments == [LineNames -> BOOLEAN]
    IN  IF mode # <<>> /\ mode[1] \in {"v", "V"}
        THEN \A assignment \in assignments : Holds(f, assignment)
        ELSE \E assignment \in assignments : Holds(f, assignment)

\* C38: every line is parsed before any formula is passed to is_satisfiable or
\* is_valid.  With an ill-formed (or empty) line among the inputs the function is
\* never called, nothing is written, and the process ends with code 22 only;
\* otherwise it ends with code 0 after writing one boolean per line, the boolean
\* of the i-th line as the i-th.
C38_ParseAllBeforeSolving ==
    /\ (\E i \in 1..Len(inputs) : IllFormed(inputs[i])) =>
            /\ enqueued = <<>> /\ results = <<>> /\ stdout = <<>>
            /\ pc \in {"parse", "exited"}
            /\ pc = "exited" => exit_code = 22
    /\ pc \in {"main", "loop", "returned", "panicked"} => Len(formulas) = Len(inputs)
    /\ stdout # <<>> => Len(results) = Len(inputs)
    /\ \A i \in 1..Len(stdout) : stdout[i] = format_result(LineAnswer(inputs[i]))
    /\ (pc = "exited" /\ \A i \in 1..Len(inputs) : ~IllFormed(inputs[i])) =>
            /\ exit_code = 0
            /\ Len(stdout) = Len(inputs)

\* The process ended with code 22 at an ill-formed line after a well-formed one.
C38_Witness ==
    /\ pc = "exited"
    /\ exit_code = 22
    /\ Len(formulas) >= 1
    /\ IllFormed(inputs[Len(formulas) + 1])
====
